---- MODULE Spec2Model ----
(***************************************************************************)
(* Model of the flutter-analysis tool.                                     *)
(*                                                                         *)
(*   flutter_analyzer.py  get_flutter (reduction of the results tensor and *)
(*                         root finding), write_roots, plot_vg             *)
(*   flutter_app.py       FlutterCanvas.plot_vg, FileTab, FlutterAnalyzer  *)
(*                                                                         *)
(* Numbers: the tensor holds integers; a root is an exact rational         *)
(* [num, den] in lowest terms (den > 0).  The code works in IEEE doubles;  *)
(* rounding of the double operations is not modelled, a division by zero   *)
(* gives the non-finite value NonFinite as numpy's does (inf or nan).      *)
(***************************************************************************)
EXTENDS Integers, Sequences, FiniteSets, TLC

VARIABLES
    response,      \* the results tensor handed over by the parser
    pc,            \* position of the __main__ pipeline
    outcome,       \* how get_flutter ended: "none", "returned", "raised"
    velocities,    \* get_flutter's velocities
    frequencies,   \* get_flutter's frequencies[i_step][i_mode]
    dampings,      \* get_flutter's dampings[i_step][i_mode]
    roots,         \* get_flutter's roots: mode index -> sequence of roots
    report,        \* the lines write_roots wrote to the output file
    results_text,  \* the text analyze_file builds from roots
    plot_modes,    \* the modes argument of the plot_vg call
    fig,           \* the figure: the curves of its two panels, and whether
                   \* plot_vg raised
    files,         \* the watched directory: file name -> what the file holds
    current_dir,   \* FlutterAnalyzer.current_dir
    tab_widget,    \* the tabs of the tab widget, in tab order
    file_tabs,     \* FlutterAnalyzer.file_tabs: (file name, tab) in insertion order
    tabs,          \* the FileTab objects: result_cache, modes, chart, text
    checked_modes, \* FlutterAnalyzer.checked_modes: the checked menu modes
    dialogs,       \* the message boxes the last handler showed
    alive,         \* the application runs (no exception left a Qt slot)
    timers,        \* the single-shot timers of handle_directory_changed that
                   \* have not fired yet
    open_boxes     \* the add_file_tab calls that wait in an open "Analysis
                   \* Error" box, innermost last: file name, the FileTab
                   \* being made, the files left to the caller's loop

pipeVars == <<response, pc, outcome, velocities, frequencies, dampings, roots,
              report, results_text, plot_modes, fig>>

appVars == <<files, current_dir, tab_widget, file_tabs, tabs, checked_modes,
             dialogs, alive, timers, open_boxes>>

vars == <<pipeVars, appVars>>

----------------------------------------------------------------------------
(* Bounds of the model *)

\* a tensor of the reduction's specification has at most this many
\* (mode, step) cells
MaxCells == 6

\* columns per cell of the tensor (the code reads columns 2, 3 and 4)
NumColumns == 5

\* a tensor handed to the chart renderer has at most this many modes, and a
\* list of modes to draw names indices up to this one
MaxPlotModes == 3

\* the menu's checkable mode actions modelled (the code creates 10)
MaxMenuModes == 2

\* at most this many directoryChanged events arrive before a timer fires
MaxPendingTimers == 3

\* at most this many "Analysis Error" boxes are open inside one another
MaxOpenBoxes == 1

\* bits of the significand of the floating-point values (float64 has 53)
MantissaBits == 3

\* a box that stays open is followed only while the widget holds fewer tabs
\* than this when it opens
MaxTabsBehindBox == 1

(* Column indices the code reads *)
VelocityColumn == 2
DampingColumn == 3
FrequencyColumn == 4

----------------------------------------------------------------------------
(* Floating-point values as exact rationals *)

Abs(x) == IF x < 0 THEN -x ELSE x

RECURSIVE GCD(_, _)
GCD(a, b) == IF b = 0 THEN a ELSE GCD(b, a % b)

\* inf / nan: the result of a division by zero
NonFinite == [num |-> 0, den |-> 0]

IsFinite(x) == x.den # 0

Rat(n, d) ==
    IF d = 0 THEN NonFinite
    ELSE LET g == GCD(Abs(n), Abs(d))
             s == IF d < 0 THEN -1 ELSE 1
         IN  [num |-> (s * n) \div g, den |-> (s * d) \div g]

FromInt(i) == [num |-> i, den |-> 1]

FDiv(x, y) ==
    IF ~IsFinite(x) \/ ~IsFinite(y) THEN NonFinite
    ELSE Rat(x.num * y.den, x.den * y.num)

FMul(x, y) ==
    IF ~IsFinite(x) \/ ~IsFinite(y) THEN NonFinite
    ELSE Rat(x.num * y.num, x.den * y.den)

FAdd(x, y) ==
    IF ~IsFinite(x) \/ ~IsFinite(y) THEN NonFinite
    ELSE Rat(x.num * y.den + y.num * x.den, x.den * y.den)

FSub(x, y) ==
    IF ~IsFinite(x) \/ ~IsFinite(y) THEN NonFinite
    ELSE Rat(x.num * y.den - y.num * x.den, x.den * y.den)

\* x < y for finite x, y
FLess(x, y) == x.num * y.den < y.num * x.den

----------------------------------------------------------------------------
(* The results tensor: response.results[i_mode][i_step][column] with        *)
(* response.results.shape = (num_modes, num_steps, num_columns)             *)

DampingValues == {-2, -1, 0, 2}

\* the velocity sweep: ascending, constant or descending in the step
SweepKinds == {"up", "flat", "down"}

\* velocity of mode m at step s differs from mode 0's by m * skew
Skews == {0, 5}

Sweep(kind, s) ==
    CASE kind = "up" -> 10 * (s + 1)
      [] kind = "flat" -> 10
      [] kind = "down" -> 100 - 10 * s

\* a frequency that differs from cell to cell and is never zero
CellFrequency(m, s) == 100 * (m + 1) + s

\* what the columns the code does not read hold
Filler(c) == 1000 + c

Cell(v, d, f) ==
    [c \in 0..(NumColumns - 1) |->
        CASE c = VelocityColumn -> v
          [] c = DampingColumn -> d
          [] c = FrequencyColumn -> f
          [] OTHER -> Filler(c)]

Tensor(nm, ns, kind, skew, damp) ==
    [num_modes |-> nm, num_steps |-> ns, num_columns |-> NumColumns,
     results |-> [m \in 0..(nm - 1) |-> [s \in 0..(ns - 1) |->
                    Cell(Sweep(kind, s) + m * skew, damp[m][s], CellFrequency(m, s))]]]

Shapes == {sh \in (0..MaxCells) \X (0..MaxCells) : sh[1] * sh[2] <= MaxCells}

DampingArrays(nm, ns) == [0..(nm - 1) -> [0..(ns - 1) -> DampingValues]]

\* response is a tensor of one of the shapes; a tensor without cells is the
\* same whatever the sweep
IsTensor(r) ==
    \E sh \in Shapes, kind \in SweepKinds, skew \in Skews :
        /\ (sh[1] = 0 \/ sh[2] = 0) => (kind = "up" /\ skew = 0)
        /\ \E damp \in DampingArrays(sh[1], sh[2]) :
              r = Tensor(sh[1], sh[2], kind, skew, damp)

----------------------------------------------------------------------------
(* get_flutter: the reduction (lines 26-36) *)

\* np.zeros(n)
Zeros(n) == [i \in 0..(n - 1) |-> 0]

\* np.zeros([rows, cols])
Zeros2(rows, cols) == [i \in 0..(rows - 1) |-> [j \in 0..(cols - 1) |-> 0]]

\* the body of the inner loop, lines 34-36
ReduceCellVelocityOfMode0(results, i_mode, i_step, ms) ==
    [velocities |-> IF i_mode = 0
                    THEN [ms.velocities EXCEPT
                            ![i_step] = results[i_mode][i_step][VelocityColumn]]
                    ELSE ms.velocities,
     frequencies |-> [ms.frequencies EXCEPT
                        ![i_step][i_mode] = results[i_mode][i_step][FrequencyColumn]],
     dampings |-> [ms.dampings EXCEPT
                        ![i_step][i_mode] = results[i_mode][i_step][DampingColumn]]]
ReduceCellSwapped(results, i_mode, i_step, ms) ==
    [velocities |-> [ms.velocities EXCEPT
                        ![i_step] = results[i_mode][i_step][VelocityColumn]],
     frequencies |-> [ms.frequencies EXCEPT
                        ![i_step][i_mode] = results[i_mode][i_step][DampingColumn]],
     dampings |-> [ms.dampings EXCEPT
                        ![i_step][i_mode] = results[i_mode][i_step][FrequencyColumn]]]
ReduceCell(results, i_mode, i_step, ms) ==
    [velocities |-> [ms.velocities EXCEPT
                        ![i_step] = results[i_mode][i_step][VelocityColumn]],
     frequencies |-> [ms.frequencies EXCEPT
                        ![i_step][i_mode] = results[i_mode][i_step][FrequencyColumn]],
     dampings |-> [ms.dampings EXCEPT
                        ![i_step][i_mode] = results[i_mode][i_step][DampingColumn]]]

\* for i_step in range(num_steps), line 33
RECURSIVE ReduceSteps(_, _, _, _, _)
ReduceSteps(results, num_steps, i_mode, i_step, ms) ==
    IF i_step >= num_steps THEN ms
    ELSE ReduceSteps(results, num_steps, i_mode, i_step + 1,
                     ReduceCell(results, i_mode, i_step, ms))

\* for i_mode in range(num_modes), line 32
RECURSIVE ReduceModes(_, _, _, _, _)
ReduceModes(results, num_modes, num_steps, i_mode, ms) ==
    IF i_mode >= num_modes THEN ms
    ELSE ReduceModes(results, num_modes, num_steps, i_mode + 1,
                     ReduceSteps(results, num_steps, i_mode, 0, ms))

Reduce(resp) ==
    ReduceModes(resp.results, resp.num_modes, resp.num_steps, 0,
                [velocities |-> Zeros(resp.num_steps),
                 frequencies |-> Zeros2(resp.num_steps, resp.num_modes),
                 dampings |-> Zeros2(resp.num_steps, resp.num_modes)])

----------------------------------------------------------------------------
(* get_flutter: root finding (lines 38-51) *)

\* if fa * fb < 0, line 46
SignChangeLoose(fa, fb) == fa * fb <= 0
SignChange(fa, fb) == fa * fb < 0

\* root = fa / (fa - fb) * (b - a) + a, line 49
InterpolateFromB(fa, fb, a, b) ==
    FAdd(FMul(FDiv(FromInt(fb), FSub(FromInt(fa), FromInt(fb))),
              FSub(FromInt(b), FromInt(a))),
         FromInt(a))
Interpolate(fa, fb, a, b) ==
    FAdd(FMul(FDiv(FromInt(fa), FSub(FromInt(fa), FromInt(fb))),
              FSub(FromInt(b), FromInt(a))),
         FromInt(a))

\* mode_roots = np.append(mode_roots, root), line 50
RecordRootInFront(mode_roots, root) == <<root>> \o mode_roots
RecordRoot(mode_roots, root) == Append(mode_roots, root)

\* mode_roots = np.array([]), line 42: a new array for each mode of each call
ModeRootsOfEarlierCall(i_mode) ==
    IF i_mode \in DOMAIN roots THEN roots[i_mode] ELSE <<>>
NewModeRoots(i_mode) == <<>>

\* for i_step in range(num_steps - 1), lines 43-50
RECURSIVE ModeRoots(_, _, _, _, _)
ModeRoots(vel, mode_damping, num_steps, i_step, mode_roots) ==
    IF i_step >= num_steps - 1 THEN mode_roots
    ELSE LET fa == mode_damping[i_step]
             fb == mode_damping[i_step + 1]
         IN  ModeRoots(vel, mode_damping, num_steps, i_step + 1,
                 IF SignChange(fa, fb)
                 THEN RecordRoot(mode_roots,
                                 Interpolate(fa, fb, vel[i_step], vel[i_step + 1]))
                 ELSE mode_roots)

\* dampings[:, i_mode], line 41
Column(arr, num_steps, i_mode) == [s \in 0..(num_steps - 1) |-> arr[s][i_mode]]

\* for i_mode in range(num_modes), lines 40-51; roots starts as dict()
RECURSIVE FindRootsFrom(_, _, _, _, _, _)
FindRootsFrom(vel, damp, num_modes, num_steps, i_mode, rts) ==
    IF i_mode >= num_modes THEN rts
    ELSE FindRootsFrom(vel, damp, num_modes, num_steps, i_mode + 1,
            (i_mode :> ModeRoots(vel, Column(damp, num_steps, i_mode),
                                 num_steps, 0, NewModeRoots(i_mode))) @@ rts)

FindRootsSkippingEmpty(vel, damp, num_modes, num_steps) ==
    LET all == FindRootsFrom(vel, damp, num_modes, num_steps, 0, <<>>)
    IN  [m \in {k \in DOMAIN all : Len(all[k]) > 0} |-> all[m]]
FindRoots(vel, damp, num_modes, num_steps) ==
    FindRootsFrom(vel, damp, num_modes, num_steps, 0, <<>>)

----------------------------------------------------------------------------
(* The textual report: write_roots (lines 69-78) and the results text of   *)
(* FileTab.analyze_file (lines 195-199)                                    *)

\* f"{x:.3f}": the number of thousandths nearest to x (a tie goes to the even
\* one); the digits printed are those of this integer
Format3(x) ==
    IF ~IsFinite(x) THEN "nan"
    ELSE LET n == x.num * 1000
             q == n \div x.den
             r == n % x.den
         IN  IF 2 * r < x.den THEN q
             ELSE IF 2 * r > x.den THEN q + 1
             ELSE IF q % 2 = 0 THEN q ELSE q + 1

\* ", ".join([f"{x:.3f}" for x in values])
FormatRoots(values) == [k \in 1..Len(values) |-> Format3(values[k])]

\* header + data: the mode number is printed in a field of `width` characters
ReportLine(number, width, values) ==
    [mode |-> number, width |-> width, data |-> FormatRoots(values)]

\* write_roots: for i_mode in range(num_modes), lines 71-78
RECURSIVE WriteRootsFrom(_, _, _, _)
WriteRootsFrom(rts, num_modes, i_mode, lines) ==
    IF i_mode >= num_modes THEN lines
    ELSE LET values == rts[i_mode]
         IN  WriteRootsFrom(rts, num_modes, i_mode + 1,
                 IF Len(values) > 0
                 THEN Append(lines, ReportLine(i_mode + 1, 2, values))
                 ELSE lines)

WriteRootsAllModes(rts) ==
    [i \in 1..Cardinality(DOMAIN rts) |-> ReportLine(i, 2, rts[i - 1])]
WriteRootsLines(rts) == WriteRootsFrom(rts, Cardinality(DOMAIN rts), 0, <<>>)

\* roots.items(): the keys in the order get_flutter inserted them
RECURSIVE Items(_, _)
Items(rts, done) ==
    IF DOMAIN rts \subseteq done THEN <<>>
    ELSE LET k == CHOOSE x \in DOMAIN rts \ done :
                      \A y \in DOMAIN rts \ done : x <= y
         IN  <<k>> \o Items(rts, done \cup {k})

\* analyze_file: for mode, values in roots.items(), lines 195-199
RECURSIVE ResultsLines(_, _, _, _)
ResultsLines(rts, items, i, lines) ==
    IF i > Len(items) THEN lines
    ELSE LET mode == items[i]
             values == rts[mode]
         IN  ResultsLines(rts, items, i + 1,
                 IF Len(values) > 0
                 THEN Append(lines, ReportLine(mode + 1, 0, values))
                 ELSE lines)

ResultsText(rts) ==
    [title |-> "Flutter Roots:", lines |-> ResultsLines(rts, Items(rts, {}), 1, <<>>)]

\* the label's text before analyze_file ran: ScrollableResults("Flutter Roots:")
InitialText == [title |-> "Flutter Roots:", lines |-> <<>>]

----------------------------------------------------------------------------
(* The chart: plot_vg (flutter_analyzer.py lines 81-121) and               *)
(* FlutterCanvas.plot_vg (flutter_app.py lines 35-67).  A panel is the     *)
(* sequence of its curves, each with its label and its data.               *)

\* if not modes: modes = range(0, num_modes)
DrawnModesWhenGiven(modes, num_modes) == modes
DrawnModes(modes, num_modes) ==
    IF modes = <<>> THEN [i \in 1..num_modes |-> i - 1] ELSE modes

\* arr[:, j]: IndexError unless -num_modes <= j < num_modes
InRange(j, num_modes) == -num_modes <= j /\ j < num_modes

Slice(arr, num_modes, num_steps, j) ==
    [s \in 0..(num_steps - 1) |-> arr[s][IF j < 0 THEN j + num_modes ELSE j]]

\* for j in modes: axes.plot(flow, arr[:, j], label=f"{j+1}", marker=".")
RECURSIVE PlotPanel(_, _, _, _, _, _, _)
PlotPanel(flow, arr, num_modes, num_steps, modes, i, curves) ==
    IF i > Len(modes) THEN [raised |-> FALSE, curves |-> curves]
    ELSE IF ~InRange(modes[i], num_modes) THEN [raised |-> TRUE, curves |-> curves]
    ELSE PlotPanel(flow, arr, num_modes, num_steps, modes, i + 1,
             Append(curves, [label |-> modes[i] + 1, x |-> flow,
                             y |-> Slice(arr, num_modes, num_steps, modes[i])]))

\* the figure after the two loops; an IndexError in the first leaves the
\* second panel without curves
TwoPanels(flow, freqs, deltas, num_modes, num_steps, modes) ==
    LET d == PlotPanel(flow, deltas, num_modes, num_steps, modes, 1, <<>>)
        f == PlotPanel(flow, freqs, num_modes, num_steps, modes, 1, <<>>)
    IN  IF d.raised
        THEN [raised |-> TRUE, damping |-> d.curves, frequency |-> <<>>]
        ELSE [raised |-> f.raised, damping |-> d.curves, frequency |-> f.curves]

\* plot_vg(flow, freqs, deltas, modes): num_modes is freqs.shape[1]
PlotVg(flow, freqs, deltas, num_modes, num_steps, modes) ==
    TwoPanels(flow, freqs, deltas, num_modes, num_steps, DrawnModes(modes, num_modes))

\* FlutterCanvas.plot_vg(flow, freqs, deltas, modes), after self.fig.clf()
CanvasPlotVg(flow, freqs, deltas, num_modes, num_steps, modes) ==
    TwoPanels(flow, freqs, deltas, num_modes, num_steps, DrawnModes(modes, num_modes))

\* the figure before anything is plotted
EmptyFigure == [raised |-> FALSE, damping |-> <<>>, frequency |-> <<>>]

\* a list of modes as the menu builds it: the checked modes in ascending order
RECURSIVE Ascending(_)
Ascending(set) ==
    IF set = {} THEN <<>>
    ELSE LET least == CHOOSE x \in set : \A y \in set : x <= y
         IN  <<least>> \o Ascending(set \ {least})

----------------------------------------------------------------------------
(* The application (flutter_app.py): the files of the watched directory,   *)
(* the FileTab objects, the tab widget and the file_tabs registry          *)

FileNames == {"a.f06", "b.f06"}

\* what a file holds: nothing (it is not in the directory), text the parser
\* fails on, or a flutter summary
Contents == {"absent", "unreadable", "flutter"}

\* the tensor the parser makes of each file's flutter summary
FileTensor(file_name) ==
    IF file_name = "a.f06"
    THEN Tensor(2, 3, "up", 0, (0 :> (0 :> 2 @@ 1 :> -2 @@ 2 :> -1)
                                @@ 1 :> (0 :> 2 @@ 1 :> 2 @@ 2 :> 2)))
    ELSE Tensor(1, 2, "up", 0, (0 :> (0 :> -1 @@ 1 :> 2)))

\* self.result_cache = None
None ==
    [velocities |-> <<>>, frequencies |-> <<>>, dampings |-> <<>>, roots |-> <<>>,
     num_modes |-> -1, num_steps |-> -1]

IsNone(cache) == cache.num_modes = -1

\* get_flutter on a file that holds a flutter summary, lines 23-53; the
\* arrays carry their shape
FlutterOf ==
    [file_name \in FileNames |->
        LET resp == FileTensor(file_name)
            ms == Reduce(resp)
        IN  [velocities |-> ms.velocities,
             frequencies |-> ms.frequencies,
             dampings |-> ms.dampings,
             roots |-> FindRoots(ms.velocities, ms.dampings,
                                 resp.num_modes, resp.num_steps),
             num_modes |-> resp.num_modes,
             num_steps |-> resp.num_steps]]

\* get_flutter(file_name, dir): lines 19-21 raise for a missing file, the
\* parser of line 23 for an unreadable one
GetFlutterOf(file_name, dir) ==
    IF dir[file_name] # "flutter"
    THEN [raised |-> TRUE, result |-> None]
    ELSE [raised |-> FALSE, result |-> FlutterOf[file_name]]

\* FileTab.__init__ before it calls analyze_file, lines 119-123 and 157-169
NewFileTab(file_name) ==
    [file_name |-> file_name, result_cache |-> None, modes |-> <<>>,
     chart |-> EmptyFigure, text |-> InitialText]

PlotOf(cache, modes) ==
    CanvasPlotVg(cache.velocities, cache.frequencies, cache.dampings,
                 cache.num_modes, cache.num_steps, modes)

\* FileTab.analyze_file, lines 185-204: the tab after it, whether it showed the
\* "Analysis Error" box, and whether an exception left it (none does: the
\* except clause catches every Exception)
AnalyzeFileUncaught(tab, dir) ==
    LET r == GetFlutterOf(tab.file_name, dir)
        chart == PlotOf(r.result, tab.modes)
    IN  IF r.raised
        THEN [tab |-> tab, message |-> FALSE, raised |-> TRUE]
        ELSE IF chart.raised
        THEN [tab |-> [tab EXCEPT !.result_cache = r.result, !.chart = chart],
              message |-> FALSE, raised |-> TRUE]
        ELSE [tab |-> [tab EXCEPT !.result_cache = r.result, !.chart = chart,
                                  !.text = ResultsText(r.result.roots)],
              message |-> FALSE, raised |-> FALSE]
AnalyzeFile(tab, dir) ==
    LET r == GetFlutterOf(tab.file_name, dir)
        chart == PlotOf(r.result, tab.modes)
    IN  IF r.raised
        THEN [tab |-> tab, message |-> TRUE, raised |-> FALSE]
        ELSE IF chart.raised
        THEN [tab |-> [tab EXCEPT !.result_cache = r.result, !.chart = chart],
              message |-> TRUE, raised |-> FALSE]
        ELSE [tab |-> [tab EXCEPT !.result_cache = r.result, !.chart = chart,
                                  !.text = ResultsText(r.result.roots)],
              message |-> FALSE, raised |-> FALSE]

\* QMessageBox.critical(self, "Analysis Error", ...), line 204
AnalysisError(file_name) == [box |-> "Analysis Error", file_name |-> file_name]

\* QMessageBox.warning(self, ..., file_name ...), line 474
LoadWarning(file_name) == [box |-> "warning", file_name |-> file_name]

\* the window's tabs and boxes as a handler works on them
Window == [tab_widget |-> tab_widget, file_tabs |-> file_tabs, tabs |-> tabs,
           dialogs |-> <<>>, raised |-> FALSE]

\* file_name in self.file_tabs
IsOpen(reg, file_name) == \E i \in DOMAIN reg : reg[i].file_name = file_name

\* self.file_tabs[file_name] = tab
SetTab(reg, file_name, tab) ==
    IF IsOpen(reg, file_name)
    THEN [i \in DOMAIN reg |->
            IF reg[i].file_name = file_name THEN [reg[i] EXCEPT !.tab = tab] ELSE reg[i]]
    ELSE Append(reg, [file_name |-> file_name, tab |-> tab])

\* del seq[i] / removeTab(i)
RemoveAt(seq, i) ==
    [k \in 1..(Len(seq) - 1) |-> IF k < i THEN seq[k] ELSE seq[k + 1]]

\* self.file_tabs.values()
Values(reg) == [i \in DOMAIN reg |-> reg[i].tab]

\* a new FileTab object
NewTab(w) == CHOOSE id \in 1..(Cardinality(DOMAIN w.tabs) + 1) : id \notin DOMAIN w.tabs

\* add_file_tab(file_name), lines 450-474 (every file name of the model ends
\* in .f06; which tab is current is not modelled)
AddFileTab(w, file_name, dir) ==
    IF IsOpen(w.file_tabs, file_name) THEN w
    ELSE LET a == AnalyzeFile(NewFileTab(file_name), dir)
             id == NewTab(w)
         IN  IF a.raised
             THEN [w EXCEPT !.dialogs = Append(@, LoadWarning(file_name))]
             ELSE [w EXCEPT !.tab_widget = Append(@, id),
                            !.file_tabs = SetTab(@, file_name, id),
                            !.tabs = (id :> a.tab) @@ @,
                            !.dialogs = IF a.message
                                        THEN Append(@, AnalysisError(file_name))
                                        ELSE @]

\* for file_name in ...: self.add_file_tab(file_name)
RECURSIVE AddFileTabs(_, _, _, _)
AddFileTabs(w, names, i, dir) ==
    IF i > Len(names) THEN w
    ELSE AddFileTabs(AddFileTab(w, names[i], dir), names, i + 1, dir)

\* for tab in self.file_tabs.values(): tab.analyze_file(), lines 521-522 and
\* 529-530; an exception leaving analyze_file would end the loop
RECURSIVE AnalyzeTabs(_, _, _, _)
AnalyzeTabs(w, ids, i, dir) ==
    IF i > Len(ids) THEN w
    ELSE LET a == AnalyzeFile(w.tabs[ids[i]], dir)
             after == [w EXCEPT !.tabs[ids[i]] = a.tab,
                                !.dialogs = IF a.message
                                            THEN Append(@, AnalysisError(a.tab.file_name))
                                            ELSE @]
         IN  IF a.raised THEN [after EXCEPT !.raised = TRUE]
             ELSE AnalyzeTabs(after, ids, i + 1, dir)

\* os.listdir and the iteration of a set give the names in some order
Orders(names) ==
    {seq \in [1..Cardinality(names) -> names] :
        \A i, j \in DOMAIN seq : i # j => seq[i] # seq[j]}

\* [f for f in os.listdir(self.current_dir) if f.lower().endswith('.f06')]
Listing(dir) == {f \in FileNames : dir[f] # "absent"}

\* refresh_directory, lines 499-517, on window w
RefreshDirectoryOf(w, order, dir) == AddFileTabs(w, order, 1, dir)

OpenFiles(reg) == {reg[i].file_name : i \in DOMAIN reg}

\* FileTab.set_modes, lines 206-215 (the mode label is not modelled): the tab
\* after it and whether plot_vg's exception left it
SetModes(tab, modes) ==
    IF IsNone(tab.result_cache)
    THEN [tab |-> [tab EXCEPT !.modes = modes], raised |-> FALSE]
    ELSE LET chart == PlotOf(tab.result_cache, modes)
         IN  [tab |-> [tab EXCEPT !.modes = modes, !.chart = chart],
              raised |-> chart.raised]

AppStart ==
    /\ files = [f \in FileNames |-> "absent"]
    /\ current_dir = ""
    /\ tab_widget = <<>>
    /\ file_tabs = <<>>
    /\ tabs = <<>>
    /\ checked_modes = {}
    /\ dialogs = <<>>
    /\ alive = TRUE
    /\ timers = 0
    /\ open_boxes = <<>>

\* FlutterAnalyzer.__init__ without a saved configuration; the pipeline's
\* variables are not used
AppInit ==
    /\ AppStart
    /\ response = Tensor(0, 0, "up", 0, <<>>)
    /\ pc = "app"
    /\ outcome = "none"
    /\ velocities = <<>>
    /\ frequencies = <<>>
    /\ dampings = <<>>
    /\ roots = <<>>
    /\ report = <<>>
    /\ results_text = InitialText
    /\ plot_modes = <<>>
    /\ fig = EmptyFigure

\* the handler's window becomes the state; an exception that leaves a slot
\* ends the application (PyQt5 calls qFatal) or is only printed
Becomes(w) ==
    /\ tab_widget' = w.tab_widget
    /\ file_tabs' = w.file_tabs
    /\ tabs' = w.tabs
    /\ dialogs' = w.dialogs
    /\ IF w.raised THEN alive' \in BOOLEAN ELSE alive' = alive

\* a file of the directory is written, replaced or deleted
FileChanges ==
    /\ alive
    /\ \E f \in FileNames, c \in Contents :
          /\ c # files[f]
          /\ files' = [files EXCEPT ![f] = c]
    /\ UNCHANGED <<pipeVars, timers, open_boxes, current_dir, tab_widget, file_tabs, tabs,
                   checked_modes, dialogs, alive>>

\* select_directory, lines 405-426, the dialog accepted: clear_tabs, then
\* load_files_from_directory (lines 428-448)
SelectDirectory ==
    /\ alive
    /\ open_boxes = <<>>      \* an open box is modal: no menu, no tab bar
    /\ current_dir' = "dir"
    /\ \E order \in Orders(Listing(files)) :
          Becomes(AddFileTabs([Window EXCEPT !.tab_widget = <<>>, !.file_tabs = <<>>,
                                             !.tabs = <<>>],
                              order, 1, files))
    /\ UNCHANGED <<pipeVars, timers, open_boxes, files, checked_modes>>

\* refresh_directory, lines 499-517, at whatever time a timer calls it
RefreshDirectory ==
    /\ alive
    /\ current_dir # ""
    /\ \E order \in Orders(Listing(files) \ OpenFiles(file_tabs)) :
          Becomes(RefreshDirectoryOf(Window, order, files))
    /\ UNCHANGED <<pipeVars, timers, open_boxes, files, current_dir, checked_modes>>

\* the "recalculate" button of a tab: analyze_file
Recalculate ==
    /\ alive
    /\ \E id \in DOMAIN tabs :
          Becomes(AnalyzeTabs(Window, <<id>>, 1, files))
    /\ UNCHANGED <<pipeVars, timers, open_boxes, files, current_dir, checked_modes>>

\* refresh_all_tabs, lines 519-524
RefreshAllTabs ==
    /\ alive
    /\ Becomes(AnalyzeTabs(Window, Values(file_tabs), 1, files))
    /\ UNCHANGED <<pipeVars, timers, open_boxes, files, current_dir, checked_modes>>

\* open_all_tabs, lines 526-532: refresh_directory (which returns at once
\* without a directory), then the loop of refresh_all_tabs
OpenAllTabs ==
    /\ alive
    /\ \E order \in Orders(IF current_dir = "" THEN {}
                           ELSE Listing(files) \ OpenFiles(file_tabs)) :
          LET w == RefreshDirectoryOf(Window, order, files)
          IN  Becomes(AnalyzeTabs(w, Values(w.file_tabs), 1, files))
    /\ UNCHANGED <<pipeVars, timers, open_boxes, files, current_dir, checked_modes>>

\* close_tab(index), lines 476-487 (the Escape key closes the current tab):
\* the first entry of file_tabs that holds the widget is deleted
CloseTab ==
    /\ alive
    /\ open_boxes = <<>>
    /\ \E index \in DOMAIN tab_widget :
          LET widget == tab_widget[index]
              held == {i \in DOMAIN file_tabs : file_tabs[i].tab = widget}
          IN  /\ file_tabs' = IF held = {} THEN file_tabs
                              ELSE RemoveAt(file_tabs,
                                            CHOOSE i \in held : \A j \in held : i <= j)
              /\ tab_widget' = RemoveAt(tab_widget, index)
              /\ tabs' = [id \in DOMAIN tabs \ {widget} |-> tabs[id]]
    /\ dialogs' = <<>>
    /\ UNCHANGED <<pipeVars, timers, open_boxes, files, current_dir, checked_modes, alive>>

\* set_modes_for_current_tab(modes), lines 399-403, with the tab the user
\* made current, if there is a tab
SetModesForCurrentTab(modes) ==
    \/ /\ tab_widget = <<>>
       /\ UNCHANGED <<tabs, alive>>
    \/ \E index \in DOMAIN tab_widget :
          LET id == tab_widget[index]
              r == SetModes(tabs[id], modes)
          IN  /\ tabs' = [tabs EXCEPT ![id] = r.tab]
              /\ IF r.raised THEN alive' \in BOOLEAN ELSE alive' = alive

\* a mode action of the menu is toggled: set_all_modes(mode, checked),
\* lines 390-396
SetAllModes ==
    /\ alive
    /\ \E mode \in 0..(MaxMenuModes - 1) :
          /\ checked_modes' = IF mode \in checked_modes
                              THEN checked_modes \ {mode}
                              ELSE checked_modes \cup {mode}
          /\ SetModesForCurrentTab(Ascending(checked_modes'))
    /\ dialogs' = <<>>
    /\ UNCHANGED <<pipeVars, timers, open_boxes, files, current_dir, tab_widget, file_tabs>>

\* the "all modes" action of the menu, line 376
ShowAllModes ==
    /\ alive
    /\ SetModesForCurrentTab(<<>>)
    /\ dialogs' = <<>>
    /\ UNCHANGED <<pipeVars, timers, open_boxes, files, current_dir, tab_widget, file_tabs, checked_modes>>

AppNext ==
    \/ FileChanges
    \/ SelectDirectory
    \/ RefreshDirectory
    \/ Recalculate
    \/ RefreshAllTabs
    \/ OpenAllTabs
    \/ CloseTab
    \/ SetAllModes
    \/ ShowAllModes

AppSpec == AppInit /\ [][AppNext]_vars

----------------------------------------------------------------------------
(* The watched directory: QFileSystemWatcher.directoryChanged, connected   *)
(* to handle_directory_changed at line 287, and the timers it starts       *)

\* a file is added to or deleted from the watched directory: the watcher
\* emits directoryChanged, and handle_directory_changed (lines 494-497)
\* starts one more single-shot timer of 500 ms; no timer is stopped
DirectoryChanged ==
    /\ alive
    /\ current_dir # ""
    /\ timers < MaxPendingTimers
    /\ \E f \in FileNames, c \in Contents :
          /\ (c = "absent") # (files[f] = "absent")
          /\ files' = [files EXCEPT ![f] = c]
    /\ timers' = timers + 1
    /\ UNCHANGED <<pipeVars, open_boxes, current_dir, tab_widget, file_tabs, tabs,
                   checked_modes, dialogs, alive>>

\* 500 ms after its event a timer fires and calls refresh_directory,
\* lines 499-517
TimerFires ==
    /\ alive
    /\ timers > 0
    /\ timers' = timers - 1
    /\ IF current_dir = ""
       THEN UNCHANGED <<tab_widget, file_tabs, tabs, dialogs, alive>>
       ELSE \E order \in Orders(Listing(files) \ OpenFiles(file_tabs)) :
               Becomes(RefreshDirectoryOf(Window, order, files))
    /\ UNCHANGED <<pipeVars, open_boxes, files, current_dir, checked_modes>>

\* a timer fires and refresh_directory reaches a new file whose analysis
\* fails: FileTab.__init__ (line 183) is in analyze_file, analyze_file in
\* QMessageBox.critical (line 204), whose event loop runs until the user
\* closes the box.  The tab is not in the widget nor in file_tabs yet (lines
\* 466-468 come after the constructor).  Boxes of the files before it were
\* closed at once.
TimerFiresIntoBox ==
    /\ alive
    /\ timers > 0
    /\ current_dir # ""
    /\ Len(open_boxes) < MaxOpenBoxes
    /\ Len(tab_widget) < MaxTabsBehindBox
    /\ timers' = timers - 1
    /\ \E order \in Orders(Listing(files) \ OpenFiles(file_tabs)) :
          \E i \in DOMAIN order :
             LET before == AddFileTabs(Window, SubSeq(order, 1, i - 1), 1, files)
                 a == AnalyzeFile(NewFileTab(order[i]), files)
             IN  /\ a.message
                 /\ tab_widget' = before.tab_widget
                 /\ file_tabs' = before.file_tabs
                 /\ tabs' = before.tabs
                 /\ dialogs' = Append(before.dialogs, AnalysisError(order[i]))
                 /\ open_boxes' = Append(open_boxes,
                                         [file_name |-> order[i], tab |-> a.tab,
                                          rest |-> SubSeq(order, i + 1, Len(order))])
    /\ UNCHANGED <<pipeVars, files, current_dir, checked_modes, alive>>

\* the user closes the innermost box: analyze_file and the constructor
\* return, add_file_tab goes on with lines 467-471 (addTab, file_tabs[file_name]
\* = tab), and the caller's loop with the files left
BoxCloses ==
    /\ alive
    /\ open_boxes # <<>>
    /\ LET call == open_boxes[Len(open_boxes)]
           id == NewTab(Window)
           added == [Window EXCEPT !.tab_widget = Append(@, id),
                                   !.file_tabs = SetTab(@, call.file_name, id),
                                   !.tabs = (id :> call.tab) @@ @]
       IN  Becomes(AddFileTabs(added, call.rest, 1, files))
    /\ open_boxes' = SubSeq(open_boxes, 1, Len(open_boxes) - 1)
    /\ UNCHANGED <<pipeVars, timers, files, current_dir, checked_modes>>

\* the user picks the directory, closes tabs and boxes; files appear and
\* disappear; the timers fire, also while a box is open
WatchNext ==
    \/ SelectDirectory
    \/ CloseTab
    \/ DirectoryChanged
    \/ TimerFires
    \/ TimerFiresIntoBox
    \/ BoxCloses

WatchSpec == AppInit /\ [][WatchNext]_vars

----------------------------------------------------------------------------
(* The pipeline: get_flutter, write_roots, and the results text rendered   *)
(* from the same roots                                                     *)

Init ==
    /\ IsTensor(response)
    /\ pc = "start"
    /\ outcome = "none"
    /\ velocities = <<>>
    /\ frequencies = <<>>
    /\ dampings = <<>>
    /\ roots = <<>>
    /\ report = <<>>
    /\ results_text = InitialText
    /\ plot_modes = <<>>
    /\ fig = EmptyFigure
    /\ AppStart

\* get_flutter on a file the parser reads: no statement of lines 26-53 raises
GetFlutter ==
    /\ pc = "start"
    /\ LET ms == Reduce(response)
       IN  /\ velocities' = ms.velocities
           /\ frequencies' = ms.frequencies
           /\ dampings' = ms.dampings
           /\ roots' = FindRoots(ms.velocities, ms.dampings,
                                 response.num_modes, response.num_steps)
    /\ outcome' = "returned"
    /\ pc' = "flutter"
    /\ UNCHANGED <<response, report, results_text, plot_modes, fig, appVars>>

\* get_flutter called once more on the same file (as analyze_file does on
\* every recalculation): lines 26-53 again, the results bound to the same names
GetFlutterAgain ==
    /\ pc = "flutter"
    /\ LET ms == Reduce(response)
       IN  /\ velocities' = ms.velocities
           /\ frequencies' = ms.frequencies
           /\ dampings' = ms.dampings
           /\ roots' = FindRoots(ms.velocities, ms.dampings,
                                 response.num_modes, response.num_steps)
    /\ outcome' = "returned"
    /\ pc' = "again"
    /\ UNCHANGED <<response, report, results_text, plot_modes, fig, appVars>>

\* write_roots(input_file_name, output_dir, roots)
WriteRoots ==
    /\ pc = "flutter"
    /\ report' = WriteRootsLines(roots)
    /\ pc' = "written"
    /\ UNCHANGED <<response, outcome, velocities, frequencies, dampings, roots,
                   results_text, plot_modes, fig, appVars>>

\* the results text of analyze_file for the same roots
ShowResults ==
    /\ pc = "written"
    /\ results_text' = ResultsText(roots)
    /\ pc' = "shown"
    /\ UNCHANGED <<response, outcome, velocities, frequencies, dampings, roots,
                   report, plot_modes, fig, appVars>>

Next == GetFlutter \/ GetFlutterAgain \/ WriteRoots \/ ShowResults

Spec == Init /\ [][Next]_vars

----------------------------------------------------------------------------
(* Root finding in floating point.  The arrays are float64 and line 49 is  *)
(* evaluated operation by operation, each result rounded to the nearest    *)
(* representable value, ties to even.  The values are binary floating-     *)
(* point numbers with a significand of MantissaBits bits (float64 has 53)  *)
(* and an exponent without bounds.                                         *)

RECURSIVE Pow2(_)
Pow2(n) == IF n = 0 THEN 1 ELSE 2 * Pow2(n - 1)

\* the least k with n/d * 2^k >= 2^(MantissaBits - 1)
RECURSIVE ExponentUp(_, _, _)
ExponentUp(n, d, k) ==
    IF n * Pow2(k) >= d * Pow2(MantissaBits - 1) THEN k ELSE ExponentUp(n, d, k + 1)

\* the least k with n/d < 2^MantissaBits * 2^k
RECURSIVE ExponentDown(_, _, _)
ExponentDown(n, d, k) ==
    IF n < d * Pow2(MantissaBits) * Pow2(k) THEN k ELSE ExponentDown(n, d, k + 1)

\* n/d to the nearest integer, ties to even
NearestEven(n, d) ==
    LET q == n \div d
        r == n % d
    IN  IF 2 * r < d THEN q
        ELSE IF 2 * r > d THEN q + 1
        ELSE IF q % 2 = 0 THEN q ELSE q + 1

\* the representable value nearest to x
Rounded(x) ==
    IF ~IsFinite(x) \/ x.num = 0 THEN x
    ELSE LET n == Abs(x.num)
             up == ExponentUp(n, x.den, 0)
             down == ExponentDown(n, x.den, 0)
             m == NearestEven(n * Pow2(up), x.den * Pow2(down))
         IN  Rat((IF x.num < 0 THEN -1 ELSE 1) * m * Pow2(down), Pow2(up))

\* if fa * fb < 0, line 46
SignChangeRounded(fa, fb) == FLess(Rounded(FMul(fa, fb)), FromInt(0))

\* root = fa / (fa - fb) * (b - a) + a, line 49
InterpolateRoundedFromB(fa, fb, a, b) ==
    Rounded(FAdd(Rounded(FMul(Rounded(FDiv(fa, Rounded(FSub(fa, fb)))),
                              Rounded(FSub(b, a)))),
                 b))
InterpolateRounded(fa, fb, a, b) ==
    Rounded(FAdd(Rounded(FMul(Rounded(FDiv(fa, Rounded(FSub(fa, fb)))),
                              Rounded(FSub(b, a)))),
                 a))

\* for i_step in range(num_steps - 1), lines 43-50
RECURSIVE ModeRootsRounded(_, _, _, _, _)
ModeRootsRounded(vel, mode_damping, num_steps, i_step, mode_roots) ==
    IF i_step >= num_steps - 1 THEN mode_roots
    ELSE LET fa == mode_damping[i_step]
             fb == mode_damping[i_step + 1]
         IN  ModeRootsRounded(vel, mode_damping, num_steps, i_step + 1,
                 IF SignChangeRounded(fa, fb)
                 THEN RecordRoot(mode_roots,
                                 InterpolateRounded(fa, fb, vel[i_step], vel[i_step + 1]))
                 ELSE mode_roots)

\* the velocities of the sweep: every significand, in two binades, and one
\* smaller value
VelocityFloats ==
    {Rat(m * Pow2(e), 1) :
        m \in Pow2(MantissaBits - 1)..(Pow2(MantissaBits) - 1), e \in {0, 1}}
        \cup {Rat(Pow2(MantissaBits - 1) - 1, 1)}

\* the dampings: of either sign, ordinary or very small
DampingFloats ==
    {Rat(sign * 2, 1) : sign \in {-1, 1}}
        \cup {Rat(sign, Pow2(MantissaBits + 1)) : sign \in {-1, 1}}

\* one mode, three flow steps
FloatSteps == {0, 1, 2}

\* the arrays after the reduction of lines 26-36, which only copies
FloatInit ==
    /\ AppStart
    /\ response = Tensor(0, 0, "up", 0, <<>>)
    /\ pc = "reduced"
    /\ outcome = "none"
    /\ velocities \in [FloatSteps -> VelocityFloats]
    /\ frequencies = <<>>
    /\ dampings \in [FloatSteps -> [{0} -> DampingFloats]]
    /\ roots = <<>>
    /\ report = <<>>
    /\ results_text = InitialText
    /\ plot_modes = <<>>
    /\ fig = EmptyFigure

\* lines 38-51 for the one mode
FindRootsRounded ==
    /\ pc = "reduced"
    /\ roots' = (0 :> ModeRootsRounded(velocities,
                                       Column(dampings, Cardinality(FloatSteps), 0),
                                       Cardinality(FloatSteps), 0, NewModeRoots(0)))
    /\ pc' = "rounded"
    /\ outcome' = "returned"
    /\ UNCHANGED <<response, velocities, frequencies, dampings, report,
                   results_text, plot_modes, fig, appVars>>

FloatNext == FindRootsRounded

FloatSpec == FloatInit /\ [][FloatNext]_vars

----------------------------------------------------------------------------
(* The chart pipeline: get_flutter, then plot_vg or FlutterCanvas.plot_vg  *)
(* with a list of modes                                                    *)

\* the tensors charted: up to MaxPlotModes modes over two or three steps,
\* every mode with the same damping at its steps
IsPlotTensor(r) ==
    \E nm \in 0..MaxPlotModes, ns \in 2..3 :
        \E d \in [0..(nm - 1) -> DampingValues] :
            r = Tensor(nm, ns, "up", 0, [m \in 0..(nm - 1) |-> [s \in 0..(ns - 1) |-> d[m]]])

ModeLists == {Ascending(set) : set \in SUBSET (0..MaxPlotModes)}

PlotInit ==
    /\ IsPlotTensor(response)
    /\ pc = "start"
    /\ outcome = "none"
    /\ velocities = <<>>
    /\ frequencies = <<>>
    /\ dampings = <<>>
    /\ roots = <<>>
    /\ report = <<>>
    /\ results_text = InitialText
    /\ plot_modes = <<>>
    /\ fig = EmptyFigure
    /\ AppStart

\* plot_vg(velocities, frequencies, dampings, modes, input_file_name)
PlotVgCall ==
    /\ pc = "flutter"
    /\ \E modes \in ModeLists :
          /\ plot_modes' = modes
          /\ fig' = PlotVg(velocities, frequencies, dampings,
                           response.num_modes, response.num_steps, modes)
    /\ pc' = "plotted"
    /\ UNCHANGED <<response, outcome, velocities, frequencies, dampings, roots,
                   report, results_text, appVars>>

\* self.canvas.plot_vg(velocities, frequencies, dampings, self.modes, self.file_name)
CanvasPlotVgCall ==
    /\ pc = "flutter"
    /\ \E modes \in ModeLists :
          /\ plot_modes' = modes
          /\ fig' = CanvasPlotVg(velocities, frequencies, dampings,
                                 response.num_modes, response.num_steps, modes)
    /\ pc' = "canvas"
    /\ UNCHANGED <<response, outcome, velocities, frequencies, dampings, roots,
                   report, results_text, appVars>>

PlotNext == GetFlutter \/ PlotVgCall \/ CanvasPlotVgCall

PlotSpec == PlotInit /\ [][PlotNext]_vars

----------------------------------------------------------------------------
(* Properties of the reduction and of the root finder *)

NumModes == response.num_modes
NumSteps == response.num_steps
Modes == 0..(NumModes - 1)
Steps == 0..(NumSteps - 1)

Returned == pc # "start" /\ outcome = "returned"

WellFormed == NumModes >= 1 /\ NumSteps >= 2

IsSequence(x) == DOMAIN x = 1..Len(x)

\* the steps i whose pair (damping[i], damping[i+1]) of mode m has a strictly
\* negative product
StrictPairs(m) ==
    {i \in 0..(NumSteps - 2) : dampings[i][m] * dampings[i + 1][m] < 0}

\* the k-th of them in ascending step order
KthStrictPair(m, k) ==
    CHOOSE i \in StrictPairs(m) : Cardinality({j \in StrictPairs(m) : j < i}) = k - 1

\* C1: for a well-formed tensor (num_modes >= 1, num_steps >= 2) the roots
\* mapping get_flutter returns has exactly the keys 0..num_modes-1, each
\* mapped to a sequence, which is empty for a mode without a sign change.
C1_RootKeys ==
    (Returned /\ WellFormed) =>
        /\ DOMAIN roots = Modes
        /\ \A m \in Modes :
              /\ IsSequence(roots[m])
              /\ (StrictPairs(m) = {}) => roots[m] = <<>>

C1_Witness ==
    /\ Returned /\ WellFormed /\ NumModes >= 2
    /\ \E m \in Modes : m \in DOMAIN roots /\ roots[m] = <<>>
    /\ \E m \in Modes : m \in DOMAIN roots /\ roots[m] # <<>>

\* C2: detection is strict.  A mode has one root per pair of consecutive
\* dampings whose product is < 0 and none for any other pair: over two steps
\* a root is recorded iff the product is < 0, a pair with a zero at either
\* end yields none, and a damping sequence such as [2, 0, -2] yields none.
C2_StrictDetection ==
    Returned =>
        \A m \in Modes :
            /\ Len(roots[m]) = Cardinality(StrictPairs(m))
            /\ NumSteps = 2 =>
                 (roots[m] # <<>> <=> dampings[0][m] * dampings[1][m] < 0)
            /\ (\A i \in 0..(NumSteps - 2) :
                    dampings[i][m] = 0 \/ dampings[i + 1][m] = 0) => roots[m] = <<>>

\* a mode whose dampings pass through an exact zero from + to -, and so has
\* no root, beside a check that a strict pair elsewhere does have one
C2_Witness ==
    /\ Returned /\ NumSteps = 3
    /\ \E m \in Modes :
          /\ dampings[0][m] = 2 /\ dampings[1][m] = 0 /\ dampings[2][m] = -2
          /\ roots[m] = <<>>

\* C3: the root recorded for the sign change at step i is
\* velocity[i] + damping[i] / (damping[i] - damping[i+1]) * (velocity[i+1] - velocity[i]),
\* stated without division: root * (fa - fb) = a * (fa - fb) + fa * (b - a);
\* the denominator fa - fb is not zero there and the root is finite.
\* Velocities [10, 20] with dampings [2, -2] give 15, and dampings of equal
\* magnitude and opposite sign give the midpoint.
C3_Interpolation ==
    Returned =>
        \A m \in Modes : \A k \in 1..Len(roots[m]) :
            LET i == KthStrictPair(m, k)
                fa == dampings[i][m]
                fb == dampings[i + 1][m]
                a == velocities[i]
                b == velocities[i + 1]
                root == roots[m][k]
            IN  /\ k <= Cardinality(StrictPairs(m))
                /\ fa - fb # 0
                /\ IsFinite(root) /\ root.den > 0
                /\ root.num * (fa - fb) = root.den * (a * (fa - fb) + fa * (b - a))
                /\ (fa = -fb) => (2 * root.num = root.den * (a + b))
                /\ (a = 10 /\ b = 20 /\ fa = 2 /\ fb = -2) => root = [num |-> 15, den |-> 1]

\* the root 15 of the example, and a root that is no midpoint
C3_Witness ==
    /\ Returned /\ NumSteps >= 4
    /\ \E m \in Modes :
          /\ m \in DOMAIN roots /\ Len(roots[m]) >= 3
          /\ velocities[0] = 10 /\ velocities[1] = 20
          /\ dampings[0][m] = 2 /\ dampings[1][m] = -2
          /\ roots[m][1] = [num |-> 15, den |-> 1]
          /\ dampings[2][m] = 2 /\ dampings[3][m] = -1
          /\ roots[m][3].den = 3

\* C4: a mode has as many roots as pairs with a strictly negative product,
\* and its k-th root is the one computed from the k-th such pair in
\* ascending step order.
C4_RootOrder ==
    Returned =>
        \A m \in Modes :
            /\ Len(roots[m]) = Cardinality(StrictPairs(m))
            /\ \A k \in 1..Len(roots[m]) :
                  LET i == KthStrictPair(m, k)
                  IN  roots[m][k] = Interpolate(dampings[i][m], dampings[i + 1][m],
                                                velocities[i], velocities[i + 1])

\* three sign changes across five steps: three roots, from steps 0, 1 and 3
C4_Witness ==
    /\ Returned /\ NumSteps = 5
    /\ \E m \in Modes :
          /\ m \in DOMAIN roots
          /\ StrictPairs(m) = {0, 1, 3}
          /\ Len(roots[m]) = 3
          /\ roots[m][1] # roots[m][2] /\ roots[m][2] # roots[m][3]

\* C5 as claimed: velocities has length num_steps and velocities[s] is the
\* velocity column of mode 0 at step s, for every tensor.
C5_VelocityOfMode0 ==
    (Returned /\ WellFormed) =>
        /\ DOMAIN velocities = Steps
        /\ \A s \in Steps : velocities[s] = response.results[0][s][VelocityColumn]

\* C5 as the code has it: velocities has length num_steps and, each mode's
\* pass overwriting it, velocities[s] is the velocity column of the last mode,
\* num_modes - 1, at step s; it is mode 0's where the velocity columns of
\* mode 0 and of the last mode agree.
C5_VelocityOfLastMode ==
    (Returned /\ NumModes >= 1) =>
        /\ DOMAIN velocities = Steps
        /\ \A s \in Steps :
              /\ velocities[s] = response.results[NumModes - 1][s][VelocityColumn]
              /\ (response.results[0][s][VelocityColumn]
                    = response.results[NumModes - 1][s][VelocityColumn])
                  => velocities[s] = response.results[0][s][VelocityColumn]

\* a tensor whose velocity column differs between mode 0 and the last mode
C5_Witness ==
    /\ Returned /\ NumModes >= 2 /\ NumSteps >= 2
    /\ \A s \in Steps :
          /\ response.results[0][s][VelocityColumn]
                # response.results[NumModes - 1][s][VelocityColumn]
          /\ velocities[s] = response.results[NumModes - 1][s][VelocityColumn]

\* C6: the reduction is a pure extract.  frequencies and dampings have shape
\* (num_steps, num_modes); frequencies[s][m] is the frequency column and
\* dampings[s][m] the damping column of tensor[m][s]; every entry is written
\* (the frequencies of the tensors are never zero, the value the arrays are
\* created with).
C6_PureExtract ==
    Returned =>
        /\ DOMAIN frequencies = Steps
        /\ DOMAIN dampings = Steps
        /\ \A s \in Steps :
              /\ DOMAIN frequencies[s] = Modes
              /\ DOMAIN dampings[s] = Modes
              /\ \A m \in Modes :
                    /\ frequencies[s][m] = response.results[m][s][FrequencyColumn]
                    /\ dampings[s][m] = response.results[m][s][DampingColumn]
                    /\ frequencies[s][m] # 0

C6_Witness ==
    /\ Returned /\ NumModes = 2 /\ NumSteps = 3
    /\ \A s \in Steps : \A m \in Modes :
          /\ dampings[s][m] # 0
          /\ frequencies[s][m] = CellFrequency(m, s)
    /\ dampings[0][0] # dampings[0][1]
    /\ dampings[0][0] # dampings[1][0]

\* C7 as claimed: the reduction fails, and produces neither series nor
\* roots, when num_modes = 0 or num_steps < 2.
C7_ShapeError ==
    (pc # "start" /\ (NumModes = 0 \/ NumSteps < 2)) =>
        /\ outcome = "raised"
        /\ roots = <<>>
        /\ velocities = <<>>

\* C8: the report has one line for each mode with at least one root and none
\* for a mode without; the lines are in ascending mode order, each labelled
\* with the mode's key + 1 and listing the mode's roots, formatted, in their
\* stored order.  This holds of the file write_roots writes and of the lines
\* of the results text of analyze_file.
ReportOf(lines) ==
    /\ IsSequence(lines)
    /\ \A m \in DOMAIN roots :
          IF roots[m] = <<>>
          THEN \A i \in 1..Len(lines) : lines[i].mode # m + 1
          ELSE \E i \in 1..Len(lines) :
                  /\ lines[i].mode = m + 1
                  /\ \A j \in 1..Len(lines) : lines[j].mode = m + 1 => j = i
                  /\ Len(lines[i].data) = Len(roots[m])
                  /\ \A k \in 1..Len(roots[m]) :
                        lines[i].data[k] = Format3(roots[m][k])
    /\ \A i \in 1..Len(lines) : lines[i].mode - 1 \in DOMAIN roots
    /\ \A i, j \in 1..Len(lines) : i < j => lines[i].mode < lines[j].mode

C8_Report ==
    /\ pc \in {"written", "shown"} => ReportOf(report)
    /\ pc = "shown" =>
          /\ ReportOf(results_text.lines)
          /\ results_text.title = "Flutter Roots:"

\* roots {0: [r1, r2], 1: []}: a single line, for mode 1
C8_Witness ==
    /\ pc = "shown" /\ NumModes = 2
    /\ Len(roots[0]) = 2 /\ roots[1] = <<>>
    /\ Len(report) = 1 /\ report[1].mode = 1 /\ Len(report[1].data) = 2
    /\ Len(results_text.lines) = 1 /\ results_text.lines[1].mode = 1
    /\ report[1].data[2] = 26667

\* C10: when the renderer returns, each panel holds exactly one curve per
\* mode of the given list, or per mode 0..num_modes-1 when the list is empty,
\* labelled mode + 1 and holding that mode's column; the damping panel and
\* the frequency panel hold the same modes.  It returns for every list of
\* indices below num_modes.
WantedModes == IF plot_modes = <<>> THEN Modes ELSE {plot_modes[i] : i \in DOMAIN plot_modes}

PanelShows(curves, arr) ==
    /\ Len(curves) = Cardinality(WantedModes)
    /\ {curves[i].label : i \in DOMAIN curves} = {j + 1 : j \in WantedModes}
    /\ \A i \in DOMAIN curves :
          /\ curves[i].x = velocities
          /\ curves[i].y = [s \in Steps |-> arr[s][curves[i].label - 1]]

C10_DrawnModes ==
    pc \in {"plotted", "canvas"} =>
        /\ (\A i \in DOMAIN plot_modes : plot_modes[i] < NumModes) => ~fig.raised
        /\ ~fig.raised =>
              /\ PanelShows(fig.damping, dampings)
              /\ PanelShows(fig.frequency, frequencies)
              /\ {fig.damping[i].label : i \in DOMAIN fig.damping}
                    = {fig.frequency[i].label : i \in DOMAIN fig.frequency}

\* a proper subset drawn by the canvas, of a tensor of three modes
C10_Witness ==
    /\ pc = "canvas" /\ NumModes = 3
    /\ plot_modes = <<0, 2>>
    /\ ~fig.raised
    /\ Len(fig.damping) = 2 /\ Len(fig.frequency) = 2
    /\ fig.damping[2].label = 3

\* C9: a failed analysis aborts only that file's analysis.  In every step
\* of a handler that runs analyze_file (tab creation in select_directory and
\* refresh_directory, the recalculate button, refresh_all_tabs,
\* open_all_tabs): each failing analysis shows one "Analysis Error" box and
\* the application goes on; a tab whose file cannot be read is left as it
\* was; a tab the handler does not analyse is unchanged; and every tab of
\* the loop whose own analysis succeeds holds its fresh result, chart and
\* text, whichever tabs failed before it.
FailsToRead(tab) == files[tab.file_name] # "flutter"

FailsToPlot(tab) ==
    /\ ~FailsToRead(tab)
    /\ \E i \in DOMAIN tab.modes :
          tab.modes[i] >= FileTensor(tab.file_name).num_modes

Fails(tab) == FailsToRead(tab) \/ FailsToPlot(tab)

\* the tab after an analysis that went through
Analysed(before, after) ==
    /\ after.file_name = before.file_name
    /\ after.modes = before.modes
    /\ ~IsNone(after.result_cache)
    /\ after.result_cache = GetFlutterOf(before.file_name, files).result
    /\ ~after.chart.raised
    /\ Len(after.chart.damping) > 0
    /\ after.text = ResultsText(after.result_cache.roots)

AfterAnalysis(before, after) ==
    IF FailsToRead(before) THEN after = before
    ELSE IF FailsToPlot(before) THEN after.text = before.text
    ELSE Analysed(before, after)

BoxesFor(file_name) ==
    Cardinality({k \in DOMAIN dialogs' : dialogs'[k] = AnalysisError(file_name)})

\* the tabs `ids` were analysed `times` times each, the others not at all
LoopDone(ids, times) ==
    /\ alive'
    /\ DOMAIN tabs' = DOMAIN tabs
    /\ \A u \in DOMAIN tabs :
          IF u \in ids
          THEN /\ AfterAnalysis(tabs[u], tabs'[u])
               /\ BoxesFor(tabs[u].file_name) = IF Fails(tabs[u]) THEN times ELSE 0
          ELSE tabs'[u] = tabs[u]
    /\ Len(dialogs') = times * Cardinality({u \in ids : Fails(tabs[u])})

\* a tab was made for each of `names`, and analysed `times` times
TabsMade(names, times) ==
    /\ alive'
    /\ {tabs'[n].file_name : n \in DOMAIN tabs' \ DOMAIN tabs} = names
    /\ Cardinality(DOMAIN tabs' \ DOMAIN tabs) = Cardinality(names)
    /\ \A n \in DOMAIN tabs' \ DOMAIN tabs :
          LET fresh == NewFileTab(tabs'[n].file_name)
          IN  /\ AfterAnalysis(fresh, tabs'[n])
              /\ BoxesFor(fresh.file_name) = IF Fails(fresh) THEN times ELSE 0

RegisteredTabs == {file_tabs[i].tab : i \in DOMAIN file_tabs}

\* what every analysing handler leaves alone (tested first: it is cheap)
KeepsFiles == UNCHANGED <<files, checked_modes>>

KeepsTabBar == KeepsFiles /\ UNCHANGED <<tab_widget, file_tabs, current_dir>>

C9_Step ==
    /\ (KeepsTabBar /\ Recalculate) => \E id \in DOMAIN tabs : LoopDone({id}, 1)
    /\ (KeepsTabBar /\ RefreshAllTabs) => LoopDone(RegisteredTabs, 1)
    /\ (KeepsFiles /\ RefreshDirectory) =>
          /\ TabsMade(Listing(files) \ OpenFiles(file_tabs), 1)
          /\ \A u \in DOMAIN tabs : u \in DOMAIN tabs' /\ tabs'[u] = tabs[u]
    /\ (KeepsFiles /\ OpenAllTabs) =>
          LET names == IF current_dir = "" THEN {}
                       ELSE Listing(files) \ OpenFiles(file_tabs)
          IN  /\ TabsMade(names, 2)
              /\ \A u \in DOMAIN tabs :
                    /\ u \in DOMAIN tabs'
                    /\ IF u \in RegisteredTabs
                       THEN /\ AfterAnalysis(tabs[u], tabs'[u])
                            /\ BoxesFor(tabs[u].file_name)
                                  = IF Fails(tabs[u]) THEN 1 ELSE 0
                       ELSE tabs'[u] = tabs[u]
    /\ (KeepsFiles /\ SelectDirectory) =>
          /\ alive'
          /\ {tabs'[n].file_name : n \in DOMAIN tabs'} = Listing(files)
          /\ \A n \in DOMAIN tabs' :
                LET fresh == NewFileTab(tabs'[n].file_name)
                IN  /\ AfterAnalysis(fresh, tabs'[n])
                    /\ BoxesFor(fresh.file_name) = IF Fails(fresh) THEN 1 ELSE 0

C11_SecondCall ==
    pc' = "again" =>
        /\ velocities' = velocities
        /\ frequencies' = frequencies
        /\ dampings' = dampings
        /\ roots' = roots

C12_Debounced == timers <= 1

\* C13: the file_tabs registry and the tab widget agree after every handler
\* that adds, closes or clears tabs: every tab of the widget is the value of
\* exactly one file_tabs key, every file_tabs value is a tab of the widget,
\* and no file name has more than one tab.
C13_RegistryAgrees ==
    /\ \A i \in DOMAIN tab_widget :
          Cardinality({k \in DOMAIN file_tabs : file_tabs[k].tab = tab_widget[i]}) = 1
    /\ \A k \in DOMAIN file_tabs :
          \E i \in DOMAIN tab_widget : tab_widget[i] = file_tabs[k].tab
    /\ \A i, j \in DOMAIN tab_widget :
          i # j => /\ tab_widget[i] # tab_widget[j]
                   /\ tabs[tab_widget[i]].file_name # tabs[tab_widget[j]].file_name
    /\ \A k, l \in DOMAIN file_tabs :
          k # l => file_tabs[k].file_name # file_tabs[l].file_name
    /\ \A k \in DOMAIN file_tabs :
          tabs[file_tabs[k].tab].file_name = file_tabs[k].file_name

\* C15: in every FileTab the results text shows the roots held in
\* result_cache: the text is the initial one while there is no cached result,
\* and the text made of the cached roots otherwise, whichever runs of
\* analyze_file and set_modes came before and whichever of them failed.
C15_TextShowsCachedRoots ==
    \A id \in DOMAIN tabs :
        tabs[id].text = IF IsNone(tabs[id].result_cache)
                        THEN InitialText
                        ELSE ResultsText(tabs[id].result_cache.roots)

\* C14 as stated: a root recorded for a sign change at step i lies strictly
\* between velocity[i] and velocity[i+1] whenever the two differ, and a
\* strictly increasing sweep gives strictly increasing roots.
CrossingSteps ==
    {s \in {0, 1} : SignChangeRounded(dampings[s][0], dampings[s + 1][0])}

\* the root recorded for the sign change at step s
RootOfStep(s) ==
    roots[0][Cardinality({t \in CrossingSteps : t <= s})]

FLessEq(x, y) == ~FLess(y, x)

StrictlyWithin(x, a, b) ==
    \/ FLess(a, x) /\ FLess(x, b)
    \/ FLess(b, x) /\ FLess(x, a)

Within(x, a, b) ==
    \/ FLessEq(a, x) /\ FLessEq(x, b)
    \/ FLessEq(b, x) /\ FLessEq(x, a)

\* b - a is a representable value: the subtraction of line 49 does not round
ExactDifference(a, b) == Rounded(FSub(b, a)) = FSub(b, a)

C14_StrictlyBetween ==
    pc = "rounded" =>
        /\ \A s \in CrossingSteps :
              velocities[s] # velocities[s + 1] =>
                  StrictlyWithin(RootOfStep(s), velocities[s], velocities[s + 1])
        /\ (FLess(velocities[0], velocities[1]) /\ FLess(velocities[1], velocities[2])
              /\ CrossingSteps = {0, 1})
             => FLess(roots[0][1], roots[0][2])

\* C14: a root recorded for a sign change at step i lies between
\* velocity[i] and velocity[i+1], the ends included, whenever the difference
\* of the two velocities is representable (as it is when they have the
\* same sign and the larger is at most twice the smaller); hence, when the sweep is strictly increasing
\* with representable differences, each mode's roots are in non-decreasing
\* order.
C14_Between ==
    pc = "rounded" =>
        /\ \A s \in CrossingSteps :
              ExactDifference(velocities[s], velocities[s + 1]) =>
                  Within(RootOfStep(s), velocities[s], velocities[s + 1])
        /\ (FLess(velocities[0], velocities[1]) /\ FLess(velocities[1], velocities[2])
              /\ ExactDifference(velocities[0], velocities[1])
              /\ ExactDifference(velocities[1], velocities[2])
              /\ CrossingSteps = {0, 1})
             => FLessEq(roots[0][1], roots[0][2])

\* a strictly increasing sweep with representable differences and two sign
\* changes whose roots both fall on the middle velocity
C14_Witness ==
    /\ pc = "rounded"
    /\ CrossingSteps = {0, 1}
    /\ FLess(velocities[0], velocities[1])
    /\ FLess(velocities[1], velocities[2])
    /\ ExactDifference(velocities[0], velocities[1])
    /\ ExactDifference(velocities[1], velocities[2])
    /\ roots[0][1] = velocities[1]
    /\ roots[0][2] = velocities[1]

====
